---- MODULE Spec2Model ----
(***************************************************************************)
(* The Echo repository's paginated read-through cache and its invalidation *)
(* on writes (internal/repository/echo): GetEchosByPage, CreateEcho,       *)
(* UpdateEcho, DeleteEchoById and LikeEcho over a relational store, a      *)
(* cost-bounded cache and the package-level list of cached keys.           *)
(***************************************************************************)
EXTENDS Integers, Sequences, FiniteSets, TLC

\* ------------------------------------------------------------------ bounds
NumProcs == 2      \* concurrent request handlers
MaxId == 2         \* rows the echos table ever receives (auto-increment ids)
MaxPage == 2       \* page numbers 1..MaxPage
MaxPageSize == 2   \* page sizes 1..MaxPageSize
MaxWrites == 2     \* write operations started in one behaviour
MaxReads == 3      \* read operations started in one behaviour
MaxRaceReads == 2  \* read operations started where handlers run concurrently or few reads do
MaxMissReads == 4  \* read operations started when nothing but reads runs
Capacity == 2      \* the cache's cost budget
MaxCost == 3       \* costs offered to Set in the cache-only specification

Procs == 1..NumProcs
Ids == 1..MaxId

\* ------------------------------------------------------------- sequences
Min(a, b) == IF a < b THEN a ELSE b

RECURSIVE SeqSum(_)
SeqSum(s) == IF s = <<>> THEN 0 ELSE Head(s) + SeqSum(Tail(s))

\* strings.TrimSpace on a string held as a sequence of characters
RECURSIVE TrimLeft(_)
TrimLeft(s) == IF s # <<>> /\ Head(s) = " " THEN TrimLeft(Tail(s)) ELSE s

RECURSIVE TrimRight(_)
TrimRight(s) ==
    IF s # <<>> /\ s[Len(s)] = " " THEN TrimRight(SubSeq(s, 1, Len(s) - 1)) ELSE s

TrimSpace(s) == TrimRight(TrimLeft(s))

\* content LIKE '%search%': search occurs as a substring of content
Like(content, search) ==
    \E i \in 1..(Len(content) - Len(search) + 1) :
        SubSeq(content, i, i + Len(search) - 1) = search

\* ------------------------------------------------------------ inputs
SearchInputs == { <<>>, <<"a">> }

\* the echos handed to CreateEcho and UpdateEcho
EchoInputs ==
    { [Content |-> <<"a">>, Private |-> FALSE, Images |-> {}],
      [Content |-> <<" ", "b">>, Private |-> FALSE, Images |-> {"x"}],
      [Content |-> <<"a">>, Private |-> TRUE, Images |-> {}] }

Descriptors ==
    [page : 1..MaxPage, pageSize : 1..MaxPageSize,
     search : SearchInputs, showPrivate : BOOLEAN]

\* the page queries issued while writes are under way
HotDescriptors ==
    { d \in Descriptors : /\ d.page = 1 /\ d.pageSize = MaxPageSize
                          /\ (d.search = <<>> \/ ~d.showPrivate) }

\* ----------------------------------------------------------- cache key
\* decimal text of a non-negative integer, one character per element
Digit(n) == <<"0", "1", "2", "3", "4", "5", "6", "7", "8", "9">>[n + 1]

RECURSIVE Itoa(_)
Itoa(n) == IF n < 10 THEN <<Digit(n)>> ELSE Itoa(n \div 10) \o <<Digit(n % 10)>>

BoolText(b) == IF b THEN <<"t", "r", "u", "e">> ELSE <<"f", "a", "l", "s", "e">>

\* a key that joins the fields without a delimiter
KeyNoDelimiter(page, pageSize, search, showPrivate) ==
    Itoa(page) \o Itoa(pageSize) \o search \o BoolText(showPrivate)

\* the key of a page query: its fields joined by ":"
GetEchoPageCacheKey(page, pageSize, search, showPrivate) ==
    Itoa(page) \o <<":">> \o Itoa(pageSize) \o <<":">> \o search
        \o <<":">> \o BoolText(showPrivate)

\* a key that leaves the visibility flag out of account
KeyOfAnyVisibility(d) == GetEchoPageCacheKey(d.page, d.pageSize, d.search, FALSE)

KeyOf(d) == GetEchoPageCacheKey(d.page, d.pageSize, d.search, d.showPrivate)

\* ------------------------------------------------------- durable store
\* rows of the echos table that the WHERE clauses of a page query keep
Matching(rows, search, showPrivate) ==
    { e \in rows : /\ (search # <<>> => Like(e.content, search))
                   /\ (~showPrivate => ~e.private) }

\* ORDER BY created_at DESC: rows are created in id order
RECURSIVE OrderDesc(_)
OrderDesc(rows) ==
    IF rows = {} THEN <<>>
    ELSE LET m == CHOOSE e \in rows : \A f \in rows : f.id <= e.id
         IN  <<m>> \o OrderDesc(rows \ {m})

\* Preload("Images"): the row with the urls of its images
WithImages(e, imgs) ==
    [id |-> e.id, content |-> e.content, private |-> e.private,
     fav_count |-> e.fav_count,
     Images |-> { i.url : i \in { j \in imgs : j.message_id = e.id } }]

\* Count(&total)
CountRows(rows, search, showPrivate) == Cardinality(Matching(rows, search, showPrivate))

\* Limit(pageSize).Offset(offset).Order("created_at DESC").Find(&echos)
FindRows(rows, imgs, search, showPrivate, offset, limit) ==
    LET all == OrderDesc(Matching(rows, search, showPrivate))
        win == SubSeq(all, offset + 1, Min(offset + limit, Len(all)))
    IN  [i \in 1..Len(win) |-> WithImages(win[i], imgs)]

\* the OFFSET clause: written only for a positive offset
OffsetClause(offset) == IF offset > 0 THEN offset ELSE 0

\* the LIMIT clause: a positive limit is written as it is; whether a limit of
\* zero is written (no rows) or left out (all rows) depends on the library
\* version, and a negative limit is left out
LimitClause(limit) ==
    IF limit > 0 THEN {limit} ELSE IF limit = 0 THEN {0, MaxId} ELSE {MaxId}

\* the offset with pages counted from zero
OffsetBad(page, pageSize) == page * pageSize

\* offset := (page - 1) * pageSize
Offset(page, pageSize) == (page - 1) * pageSize

\* ---------------------------------------------------------------- cache
\* entries in order of use, least recently used first
CacheKeys(c) == { c[i].key : i \in 1..Len(c) }

CacheCost(c) == SeqSum([i \in 1..Len(c) |-> c[i].cost])

CacheHas(c, k) == k \in CacheKeys(c)

CacheValue(c, k) == (CHOOSE i \in 1..Len(c) : c[i].key = k)

CacheRemove(c, k) == SelectSeq(c, LAMBDA e : e.key # k)

\* Get: the entry's value; a hit makes the entry the most recently used
CacheGet(c, k) == c[CacheValue(c, k)].value

CacheTouch(c, k) == CacheRemove(c, k) \o <<c[CacheValue(c, k)]>>

\* drop least recently used entries until `cost` more fits
RECURSIVE EvictFor(_, _)
EvictFor(c, cost) ==
    IF c = <<>> \/ CacheCost(c) + cost <= Capacity THEN c ELSE EvictFor(Tail(c), cost)

\* whether Set accepts the entry
CacheAccepts(cost) == cost > 0 /\ cost <= Capacity

\* a Set that never evicts
CacheSetNoEvict(c, k, v, cost) ==
    IF ~(cost > 0 /\ cost <= Capacity) THEN c
    ELSE CacheRemove(c, k) \o <<[key |-> k, value |-> v, cost |-> cost]>>

\* a Set that makes room for an entry larger than the capacity
CacheSetAnyCost(c, k, v, cost) ==
    IF cost <= 0 THEN c
    ELSE EvictFor(CacheRemove(c, k), Min(cost, Capacity))
             \o <<[key |-> k, value |-> v, cost |-> cost]>>

\* Set: insert or replace, evicting by least recent use; an entry of
\* non-positive cost or larger than the capacity is refused
CacheSet(c, k, v, cost) ==
    IF ~CacheAccepts(cost) THEN c
    ELSE EvictFor(CacheRemove(c, k), cost) \o <<[key |-> k, value |-> v, cost |-> cost]>>

\* what Set returns
CacheSetErr(cost) ==
    IF cost <= 0 THEN "invalid cost"
    ELSE IF cost > Capacity THEN "entry too large" ELSE "nil"

\* the keys a Set evicts
CacheEvicted(c, k, cost) ==
    (CacheKeys(c) \ {k}) \ CacheKeys(CacheSet(c, k, <<>>, cost))

\* Delete: removing an absent key changes nothing
CacheDelete(c, k) == CacheRemove(c, k)

\* Clear
CacheClear(c) == <<>>

\* ------------------------------------------------ invalidation of pages
\* delete every tracked key from the cache, then forget the tracked keys
RECURSIVE DeleteAll(_, _)
DeleteAll(c, keys) ==
    IF keys = <<>> THEN c ELSE DeleteAll(CacheDelete(c, Head(keys)), Tail(keys))


\* ---------------------------------------------------------------- state
VARIABLES
    echos,        \* rows of the echos table
    images,       \* rows of the images table
    nextId,       \* next auto-increment id of the echos table
    cache,        \* EchoRepository.cache
    echoKeyList,  \* package-level list of the keys cached so far
    pc,           \* where each request handler stands
    loc,          \* each request handler's arguments, locals and results
    writes,       \* write operations started
    reads,        \* read operations started
    lastWriteKeys, \* keys that were cached when the last successful write began
    lastGet,      \* key and result of the last completed page read
    setErr,       \* what the last cache.Set returned
    evicted       \* keys the last cache.Set evicted for want of room

vars == <<echos, images, nextId, cache, echoKeyList, pc, loc, writes, reads,
          lastWriteKeys, lastGet, setErr, evicted>>

NoDesc == [page |-> 0, pageSize |-> 0, search |-> <<>>, showPrivate |-> FALSE]
NoGet == [key |-> <<>>, Items |-> <<>>, Total |-> 0, valid |-> FALSE]

Idle ==
    [op |-> "none", d |-> NoDesc, key |-> <<>>, id |-> 0, total |-> 0, items |-> <<>>,
     snap |-> <<>>, err |-> "nil", hit |-> FALSE, queried |-> FALSE,
     qfail |-> FALSE, committed |-> FALSE, purged |-> FALSE,
     changed |-> FALSE, cachedKeys |-> {}, afterWrite |-> FALSE,
     rejected |-> FALSE, absent |-> FALSE, wrote |-> FALSE]

WriteOps == {"create", "update", "delete", "like"}

Init ==
    /\ echos = {}
    /\ images = {}
    /\ nextId = 1
    /\ cache = <<>>
    /\ echoKeyList = <<>>
    /\ pc = [p \in Procs |-> "idle"]
    /\ loc = [p \in Procs |-> Idle]
    /\ writes = 0
    /\ reads = 0
    /\ lastWriteKeys = {}
    /\ lastGet = NoGet
    /\ setErr = "nil"
    /\ evicted = {}

dbVars == <<echos, images, nextId>>
ghostVars == <<lastWriteKeys, lastGet>>
setVars == <<setErr, evicted>>

\* the last completed read stops being comparable once its key leaves the cache
GetAfter(c) == IF lastGet.valid /\ ~CacheHas(c, lastGet.key) THEN NoGet ELSE lastGet

Finish(p, l) ==
    /\ pc' = [pc EXCEPT ![p] = "done"]
    /\ loc' = [loc EXCEPT ![p] = l]

Goto(p, label, l) ==
    /\ pc' = [pc EXCEPT ![p] = label]
    /\ loc' = [loc EXCEPT ![p] = l]

\* ------------------------------------------------------ GetEchosByPage
\* a hit that returns the items without the cached total
GetHitNoTotal(p, d, n) ==
    /\ pc[p] = "idle" /\ reads < n
    /\ CacheHas(cache, KeyOf(d))
    /\ reads' = reads + 1
    /\ cache' = CacheTouch(cache, KeyOf(d))
    /\ Finish(p, [Idle EXCEPT !.op = "get", !.d = d, !.key = KeyOf(d), !.hit = TRUE,
                              !.items = CacheGet(cache, KeyOf(d)).Items,
                              !.total = 0,
                              !.afterWrite = KeyOf(d) \in lastWriteKeys])
    /\ lastWriteKeys' = {}
    /\ UNCHANGED <<dbVars, echoKeyList, writes, lastGet, setVars>>

\* cacheKey := GetEchoPageCacheKey(page, pageSize, search, showPrivate)
BuildKey(p) ==
    /\ pc[p] = "idle" /\ loc[p].d # NoDesc
    /\ Goto(p, "done", [loc[p] EXCEPT !.key = KeyOf(loc[p].d)])
    /\ UNCHANGED <<dbVars, cache, echoKeyList, writes, reads, ghostVars, setVars>>

\* cache.Get(cacheKey) finds the entry: return it
GetHit(p, d, n) ==
    /\ pc[p] = "idle" /\ reads < n
    /\ CacheHas(cache, KeyOf(d))
    /\ reads' = reads + 1
    /\ cache' = CacheTouch(cache, KeyOf(d))
    /\ Finish(p, [Idle EXCEPT !.op = "get", !.d = d, !.key = KeyOf(d), !.hit = TRUE,
                              !.items = CacheGet(cache, KeyOf(d)).Items,
                              !.total = CacheGet(cache, KeyOf(d)).Total,
                              !.afterWrite = KeyOf(d) \in lastWriteKeys])
    /\ lastWriteKeys' = {}
    /\ UNCHANGED <<dbVars, echoKeyList, writes, lastGet, setVars>>

\* cache.Get(cacheKey) finds nothing: go on to the database
GetMiss(p, d, n) ==
    /\ pc[p] = "idle" /\ reads < n
    /\ ~CacheHas(cache, KeyOf(d))
    /\ reads' = reads + 1
    /\ Goto(p, "count", [Idle EXCEPT !.op = "get", !.d = d, !.key = KeyOf(d),
                                     !.afterWrite = KeyOf(d) \in lastWriteKeys])
    /\ lastWriteKeys' = {}
    /\ UNCHANGED <<dbVars, cache, echoKeyList, writes, lastGet, setVars>>

\* query.Count(&total); after an error the rest of the chain runs no query
GetCount(p, ok) ==
    /\ pc[p] = "count"
    /\ LET l == loc[p] IN
       IF ok
       THEN Goto(p, "find",
                 [l EXCEPT !.queried = TRUE,
                           !.total = CountRows(echos, l.d.search, l.d.showPrivate)])
       ELSE Goto(p, "track", [l EXCEPT !.queried = TRUE, !.qfail = TRUE])
    /\ UNCHANGED <<dbVars, cache, echoKeyList, writes, reads, ghostVars, setVars>>

\* ...Preload("Images").Limit(pageSize).Offset(offset).Order(...).Find(&echos)
GetFind(p, ok) ==
    /\ pc[p] = "find"
    /\ LET l == loc[p] IN
       IF ok
       THEN \E limit \in LimitClause(l.d.pageSize) :
                Goto(p, "track",
                     [l EXCEPT !.items =
                          FindRows(echos, images, l.d.search, l.d.showPrivate,
                                   OffsetClause(Offset(l.d.page, l.d.pageSize)), limit)])
       ELSE Goto(p, "track", [l EXCEPT !.qfail = TRUE])
    /\ UNCHANGED <<dbVars, cache, echoKeyList, writes, reads, ghostVars, setVars>>

\* append(echoKeyList, cacheKey) reads the shared slice ...
GetTrackRead(p) ==
    /\ pc[p] = "track"
    /\ Goto(p, "track_w", [loc[p] EXCEPT !.snap = echoKeyList])
    /\ UNCHANGED <<dbVars, cache, echoKeyList, writes, reads, ghostVars, setVars>>

\* ... and echoKeyList = ... writes it back, with no lock held in between
GetTrackWrite(p) ==
    /\ pc[p] = "track_w"
    /\ echoKeyList' = Append(loc[p].snap, KeyOf(loc[p].d))
    /\ Goto(p, "set", [loc[p] EXCEPT !.snap = <<>>, !.changed = TRUE])
    /\ UNCHANGED <<dbVars, cache, writes, reads, ghostVars, setVars>>

\* cache.Set(cacheKey, PageQueryResult{Items: echos, Total: total}, 1); return
GetSet(p) ==
    /\ pc[p] = "set"
    /\ LET l == loc[p]
           v == [Items |-> l.items, Total |-> l.total]
       IN  /\ cache' = CacheSet(cache, KeyOf(l.d), v, 1)
           /\ setErr' = CacheSetErr(1)
           /\ evicted' = CacheEvicted(cache, KeyOf(l.d), 1)
           /\ Finish(p, [l EXCEPT !.changed = TRUE])
           /\ lastGet' = GetAfter(cache')
    /\ UNCHANGED <<dbVars, echoKeyList, writes, reads, lastWriteKeys>>

\* a rejected cache.Set that makes the read fail
GetSetRejectedFails(p) ==
    /\ pc[p] = "set"
    /\ setErr' = "rejected"
    /\ evicted' = {}
    /\ Finish(p, [loc[p] EXCEPT !.rejected = TRUE, !.err = "error",
                                !.items = <<>>, !.total = 0])
    /\ UNCHANGED <<dbVars, cache, echoKeyList, writes, reads, ghostVars>>

\* cache.Set returns an error and stores nothing; the error is not read and
\* the call returns echos, total
GetSetRejected(p) ==
    /\ pc[p] = "set"
    /\ setErr' = "rejected"
    /\ evicted' = {}
    /\ Finish(p, [loc[p] EXCEPT !.rejected = TRUE])
    /\ UNCHANGED <<dbVars, cache, echoKeyList, writes, reads, ghostVars>>

\* ------------------------------------------------- ClearEchoPageCache
\* the handler's purge: every tracked key deleted from the cache, the list reset
Purged(p, l) ==
    LET c == DeleteAll(cache, echoKeyList) IN
    [l EXCEPT !.purged = TRUE,
              !.changed = l.changed \/ c # cache \/ echoKeyList # <<>>]

\* a purge that deletes the entries and keeps the list of keys
ClearKeepsList ==
    /\ cache' = DeleteAll(cache, echoKeyList)
    /\ echoKeyList' = echoKeyList
    /\ lastGet' = GetAfter(cache')

ClearEchoPageCache ==
    /\ cache' = DeleteAll(cache, echoKeyList)
    /\ echoKeyList' = <<>>
    /\ lastGet' = GetAfter(cache')

\* ----------------------------------------------------------- CreateEcho
\* echo.Content = strings.TrimSpace(echo.Content); db.Create(echo)
CreateEcho(p, echo, ok) ==
    /\ pc[p] = "idle" /\ writes < MaxWrites /\ nextId <= MaxId
    /\ writes' = writes + 1
    /\ IF ok
       THEN /\ echos' = echos \cup { [id |-> nextId, content |-> TrimSpace(echo.Content),
                                      private |-> echo.Private, fav_count |-> 0] }
            /\ images' = images
                   \cup { [message_id |-> nextId, url |-> u] : u \in echo.Images }
            /\ nextId' = nextId + 1
            /\ Goto(p, "c_purge", [Idle EXCEPT !.op = "create", !.id = nextId,
                                               !.cachedKeys = CacheKeys(cache),
                                               !.committed = TRUE])
       ELSE /\ Finish(p, [Idle EXCEPT !.op = "create", !.err = "error"])
            /\ UNCHANGED dbVars
    /\ UNCHANGED <<cache, echoKeyList, reads, ghostVars, setVars>>

\* a create that returns without purging
CreatePurgeSkipped(p) ==
    /\ pc[p] = "c_purge"
    /\ Finish(p, loc[p])
    /\ UNCHANGED <<dbVars, cache, echoKeyList, writes, reads, ghostVars, setVars>>

\* ClearEchoPageCache(echoRepository.cache); return nil
CreatePurge(p) ==
    /\ pc[p] = "c_purge"
    /\ ClearEchoPageCache
    /\ Finish(p, Purged(p, loc[p]))
    /\ UNCHANGED <<dbVars, writes, reads, lastWriteKeys, setVars>>

\* ------------------------------------------------------- DeleteEchoById
\* db.Where("message_id = ?", id).Delete(&model.Image{}), its error unread
DeleteImages(p, id, ok) ==
    /\ pc[p] = "idle" /\ writes < MaxWrites
    /\ writes' = writes + 1
    /\ images' = IF ok THEN { i \in images : i.message_id # id } ELSE images
    /\ Goto(p, "d_echo", [Idle EXCEPT !.op = "delete", !.id = id,
                                          !.cachedKeys = CacheKeys(cache),
                                          !.absent = \A e \in echos : e.id # id,
                                          !.wrote = images' # images])
    /\ UNCHANGED <<echos, nextId, cache, echoKeyList, reads, ghostVars, setVars>>

\* db.Delete(&echo, id): error, no row affected, or the row removed
DeleteEcho(p, ok) ==
    /\ pc[p] = "d_echo"
    /\ LET l == loc[p]
           rows == { e \in echos : e.id = l.id }
       IN  IF ~ok
           THEN Finish(p, [l EXCEPT !.err = "error"]) /\ UNCHANGED echos
           ELSE IF rows = {}
           THEN Finish(p, [l EXCEPT !.err = "not_found"]) /\ UNCHANGED echos
           ELSE /\ echos' = echos \ rows
                /\ Goto(p, "d_purge", [l EXCEPT !.committed = TRUE, !.wrote = TRUE])
    /\ UNCHANGED <<images, nextId, cache, echoKeyList, writes, reads, ghostVars, setVars>>

\* ClearEchoPageCache(echoRepository.cache); return nil
DeletePurge(p) ==
    /\ pc[p] = "d_purge"
    /\ ClearEchoPageCache
    /\ Finish(p, Purged(p, loc[p]))
    /\ UNCHANGED <<dbVars, writes, reads, lastWriteKeys, setVars>>

\* ----------------------------------------------------------- UpdateEcho
\* ClearEchoPageCache(echoRepository.cache), the first statement
UpdatePurge(p, id) ==
    /\ pc[p] = "idle" /\ writes < MaxWrites
    /\ writes' = writes + 1
    /\ ClearEchoPageCache
    /\ Goto(p, "u_tx", Purged(p, [Idle EXCEPT !.op = "update", !.id = id,
                                          !.cachedKeys = CacheKeys(cache)]))
    /\ UNCHANGED <<dbVars, reads, lastWriteKeys, setVars>>

\* the transaction: old images deleted, the row updated, new images inserted,
\* commit; an error at Begin, at any statement or at Commit changes nothing
UpdateTx(p, echo, ok) ==
    /\ pc[p] = "u_tx"
    /\ LET l == loc[p] IN
       IF ok
       THEN /\ images' = { i \in images : i.message_id # l.id }
                             \cup { [message_id |-> l.id, url |-> u] : u \in echo.Images }
            /\ echos' = { IF e.id = l.id
                          THEN [e EXCEPT !.content = echo.Content, !.private = echo.Private]
                          ELSE e : e \in echos }
            /\ Finish(p, [l EXCEPT !.committed = TRUE])
       ELSE /\ Finish(p, [l EXCEPT !.err = "error"])
            /\ UNCHANGED <<echos, images>>
    /\ UNCHANGED <<nextId, cache, echoKeyList, writes, reads, ghostVars, setVars>>

\* ------------------------------------------------------------- LikeEcho
\* Select("count(*) > 0").Where("id = ?", id).Find(&exists)
LikeExists(p, id, ok) ==
    /\ pc[p] = "idle" /\ writes < MaxWrites
    /\ writes' = writes + 1
    /\ LET l == [Idle EXCEPT !.op = "like", !.id = id,
                              !.cachedKeys = CacheKeys(cache),
                              !.absent = \A e \in echos : e.id # id] IN
       IF ~ok THEN Finish(p, [l EXCEPT !.err = "error"])
       ELSE IF \A e \in echos : e.id # id THEN Finish(p, [l EXCEPT !.err = "not_found"])
       ELSE Goto(p, "l_incr", l)
    /\ UNCHANGED <<dbVars, cache, echoKeyList, reads, ghostVars, setVars>>

\* UpdateColumn("fav_count", gorm.Expr("fav_count + ?", 1))
LikeIncr(p, ok) ==
    /\ pc[p] = "l_incr"
    /\ LET l == loc[p] IN
       IF ok
       THEN /\ echos' = { IF e.id = l.id
                          THEN [e EXCEPT !.fav_count = e.fav_count + 1]
                          ELSE e : e \in echos }
            /\ Goto(p, "l_purge", [l EXCEPT !.committed = TRUE, !.wrote = TRUE])
       ELSE /\ Finish(p, [l EXCEPT !.err = "error"])
            /\ UNCHANGED echos
    /\ UNCHANGED <<images, nextId, cache, echoKeyList, writes, reads, ghostVars, setVars>>

\* ClearEchoPageCache(echoRepository.cache); return nil
LikePurge(p) ==
    /\ pc[p] = "l_purge"
    /\ ClearEchoPageCache
    /\ Finish(p, Purged(p, loc[p]))
    /\ UNCHANGED <<dbVars, writes, reads, lastWriteKeys, setVars>>

\* --------------------------------------------------------------- return
\* the call returns to its handler
Return(p) ==
    /\ pc[p] = "done"
    /\ pc' = [pc EXCEPT ![p] = "idle"]
    /\ loc' = [loc EXCEPT ![p] = Idle]
    /\ lastWriteKeys' = IF loc[p].op \in WriteOps
                     THEN (IF loc[p].err = "nil" THEN loc[p].cachedKeys ELSE {})
                     ELSE lastWriteKeys
    /\ lastGet' = IF loc[p].op = "get" /\ CacheHas(cache, KeyOf(loc[p].d))
                  THEN [key |-> KeyOf(loc[p].d), Items |-> loc[p].items,
                        Total |-> loc[p].total, valid |-> TRUE]
                  ELSE IF loc[p].op = "get" /\ loc[p].rejected
                  THEN [key |-> KeyOf(loc[p].d), Items |-> loc[p].items,
                        Total |-> loc[p].total, valid |-> FALSE]
                  ELSE lastGet
    /\ UNCHANGED <<dbVars, cache, echoKeyList, writes, reads, setVars>>

\* ------------------------------------------------------- specifications
ReadStep(p, ok, D, n) ==
    \/ \E d \in D : GetHit(p, d, n)
    \/ \E d \in D : GetMiss(p, d, n)
    \/ GetCount(p, ok)
    \/ GetFind(p, ok)
    \/ GetTrackRead(p)
    \/ GetTrackWrite(p)
    \/ GetSet(p)
    \/ Return(p)

WriteStep(p, ok) ==
    \/ \E e \in EchoInputs : CreateEcho(p, e, ok)
    \/ CreatePurge(p)
    \/ \E id \in Ids : DeleteImages(p, id, ok)
    \/ DeleteEcho(p, ok)
    \/ DeletePurge(p)
    \/ \E id \in Ids : UpdatePurge(p, id)
    \/ \E e \in EchoInputs : UpdateTx(p, e, ok)
    \/ \E id \in Ids : LikeExists(p, id, ok)
    \/ LikeIncr(p, ok)
    \/ LikePurge(p)

\* one request at a time; any database call may fail
NextSeq == \E ok \in BOOLEAN : ReadStep(1, ok, HotDescriptors, MaxReads) \/ WriteStep(1, ok)

SeqSpec == Init /\ [][NextSeq]_vars

\* request handlers run concurrently; no database call fails
NextRace ==
    \E p \in Procs : ReadStep(p, TRUE, HotDescriptors, MaxRaceReads) \/ WriteStep(p, TRUE)

RaceSpec == Init /\ [][NextRace]_vars

\* one page read from the empty cache, over any table the writes can leave
\* behind; no database call fails
RowValues == [content : { <<"a">>, <<"b">> }, private : BOOLEAN, fav_count : {0}]

Tables ==
    { { [id |-> i, content |-> f[i].content, private |-> f[i].private,
         fav_count |-> f[i].fav_count] : i \in DOMAIN f } :
      f \in UNION { [S -> RowValues] : S \in SUBSET Ids } }

InitRead ==
    /\ echos \in Tables
    /\ images \in SUBSET { [message_id |-> i, url |-> "x"] : i \in Ids }
    /\ nextId = MaxId + 1
    /\ cache = <<>>
    /\ echoKeyList = <<>>
    /\ pc = [p \in Procs |-> "idle"]
    /\ loc = [p \in Procs |-> Idle]
    /\ writes = 0
    /\ reads = 0
    /\ lastWriteKeys = {}
    /\ lastGet = NoGet
    /\ setErr = "nil"
    /\ evicted = {}

NextRead ==
    \/ \E d \in Descriptors : GetMiss(1, d, 1)
    \/ GetCount(1, TRUE)
    \/ GetFind(1, TRUE)
    \/ GetTrackRead(1)
    \/ GetTrackWrite(1)
    \/ GetSet(1)
    \/ Return(1)

ReadSpec == InitRead /\ [][NextRead]_vars

\* the key of a page query alone: each handler is called with a descriptor
\* whose numbers have one or two digits and whose search term may hold the
\* delimiter or a digit, and builds the key
KeyDescriptors ==
    [page : {1, 11}, pageSize : {1, 11},
     search : { <<>>, <<":">>, <<"1">>, <<"1", ":">> }, showPrivate : BOOLEAN]

InitKey ==
    /\ echos = {}
    /\ images = {}
    /\ nextId = 1
    /\ cache = <<>>
    /\ echoKeyList = <<>>
    /\ pc = [p \in Procs |-> "idle"]
    /\ loc \in [Procs -> { [Idle EXCEPT !.op = "get", !.d = d] : d \in KeyDescriptors }]
    /\ writes = 0
    /\ reads = 0
    /\ lastWriteKeys = {}
    /\ lastGet = NoGet
    /\ setErr = "nil"
    /\ evicted = {}

NextKey == \E p \in Procs : BuildKey(p)

KeySpec == InitKey /\ [][NextKey]_vars

\* page reads one at a time over any table, each cache.Set either accepted
\* or rejected by the cache
InitReject ==
    /\ echos \in Tables
    /\ images \in { {}, { [message_id |-> e.id, url |-> "x"] : e \in echos } }
    /\ nextId = MaxId + 1
    /\ cache = <<>>
    /\ echoKeyList = <<>>
    /\ pc = [p \in Procs |-> "idle"]
    /\ loc = [p \in Procs |-> Idle]
    /\ writes = 0
    /\ reads = 0
    /\ lastWriteKeys = {}
    /\ lastGet = NoGet
    /\ setErr = "nil"
    /\ evicted = {}

NextReject ==
    \/ ReadStep(1, TRUE, HotDescriptors, MaxRaceReads)
    \/ GetSetRejected(1)

RejectSpec == InitReject /\ [][NextReject]_vars

\* page reads alone, one at a time, enough of them to evict a page and read it again
NextMiss == ReadStep(1, TRUE, HotDescriptors, MaxMissReads)

MissSpec == Init /\ [][NextMiss]_vars

\* page reads whose page or page size is zero, one at a time, over any table
InvalidDescriptors ==
    { d \in [page : 0..1, pageSize : 0..1, search : {<<>>}, showPrivate : BOOLEAN] :
          d.page = 0 \/ d.pageSize = 0 }

NextInvalid == ReadStep(1, TRUE, InvalidDescriptors, MaxRaceReads)

InvalidSpec == InitRead /\ [][NextInvalid]_vars

\* the cache store alone, under any sequence of Get, Set, Delete and Clear
CacheKeyInputs == { KeyOf(d) : d \in HotDescriptors }
CacheValueInputs == { [Items |-> <<>>, Total |-> t] : t \in 0..1 }

CacheGetOp(k) ==
    /\ CacheHas(cache, k)
    /\ cache' = CacheTouch(cache, k)
    /\ UNCHANGED <<dbVars, echoKeyList, pc, loc, writes, reads, ghostVars, setVars>>

CacheSetOp(k, v, cost) ==
    /\ cache' = CacheSet(cache, k, v, cost)
    /\ setErr' = CacheSetErr(cost)
    /\ evicted' = CacheEvicted(cache, k, cost)
    /\ UNCHANGED <<dbVars, echoKeyList, pc, loc, writes, reads, ghostVars>>

CacheDeleteOp(k) ==
    /\ cache' = CacheDelete(cache, k)
    /\ UNCHANGED <<dbVars, echoKeyList, pc, loc, writes, reads, ghostVars, setVars>>

CacheClearOp ==
    /\ cache' = CacheClear(cache)
    /\ UNCHANGED <<dbVars, echoKeyList, pc, loc, writes, reads, ghostVars, setVars>>

NextCache ==
    \/ \E k \in CacheKeyInputs : CacheGetOp(k)
    \/ \E k \in CacheKeyInputs, v \in CacheValueInputs, cost \in 0..MaxCost :
           CacheSetOp(k, v, cost)
    \/ \E k \in CacheKeyInputs : CacheDeleteOp(k)
    \/ CacheClearOp

CacheSpec == Init /\ [][NextCache]_vars


\* ---------------------------------------------------------- properties
Quiescent == \A p \in Procs : pc[p] = "idle"

GetDone(p) == pc[p] = "done" /\ loc[p].op = "get"
WriteDone(p) == pc[p] = "done" /\ loc[p].op \in WriteOps

\* what the database holds for a page query, as one PageQueryResult
PageOf(d) ==
    [Items |-> FindRows(echos, images, d.search, d.showPrivate,
                        (d.page - 1) * d.pageSize, d.pageSize),
     Total |-> CountRows(echos, d.search, d.showPrivate)]

\* the same page stated row by row: the rows that pass the filters, each placed
\* by the number of passing rows created after it
DirectMatch(d) ==
    { e \in echos : /\ (d.showPrivate \/ ~e.private)
                    /\ (d.search = <<>> \/ Like(e.content, d.search)) }

Rank(e, S) == Cardinality({ f \in S : f.id > e.id })

DirectItems(d) ==
    LET S == DirectMatch(d)
        first == (d.page - 1) * d.pageSize
        inWin == { e \in S : Rank(e, S) >= first /\ Rank(e, S) < first + d.pageSize }
    IN  [i \in 1..Cardinality(inWin) |->
            WithImages(CHOOSE e \in inWin : Rank(e, S) = first + i - 1, images)]

DirectTotal(d) == Cardinality(DirectMatch(d))

\* C1: one request at a time, a page read whose key was cached when the last
\* successful write (create, update, delete or like) began, and that is the
\* first read since that write, returns the items and total the database holds
\* after the write, never the page cached before it.
C1_InvalidationCorrectness ==
    \A p \in Procs :
        (GetDone(p) /\ loc[p].afterWrite /\ ~loc[p].qfail)
            => /\ loc[p].items = DirectItems(loc[p].d)
               /\ loc[p].total = DirectTotal(loc[p].d)

C1_Witness ==
    \E p \in Procs :
        /\ GetDone(p) /\ loc[p].afterWrite /\ ~loc[p].qfail
        /\ loc[p].total > 0

\* C2: every write operation purges the page cache only after its change to
\* the database has been committed.
C2_PurgeAfterCommit == \A p \in Procs : loc[p].purged => loc[p].committed

\* C3: a write operation that returns an error has changed neither the cache
\* contents nor the list of tracked keys.
C3_FailedWriteNoPurge ==
    \A p \in Procs : (WriteDone(p) /\ loc[p].err # "nil") => ~loc[p].changed

\* C4: once every read and write has completed, no cache entry holds a page
\* that differs from what the database holds for its query.
C4_NoStaleEntryAfterRace ==
    Quiescent =>
        \A d \in HotDescriptors :
            CacheHas(cache, KeyOf(d)) => CacheGet(cache, KeyOf(d)) = PageOf(d)

\* C5: once every read and write has completed, every key resident in the
\* cache is in the list of tracked keys, so that the next purge removes it.
C5_ResidentKeysTracked ==
    Quiescent =>
        \A k \in CacheKeys(cache) : \E i \in 1..Len(echoKeyList) : echoKeyList[i] = k

\* C6: one request at a time, a page read that follows a completed read of the
\* same key, with that key still in the cache, is a hit: it returns the same
\* items and total as the earlier read and runs no database query.
C6_CacheHitEquivalence ==
    \A p \in Procs :
        (GetDone(p) /\ lastGet.valid /\ lastGet.key = KeyOf(loc[p].d))
            => /\ loc[p].hit
               /\ loc[p].items = lastGet.Items
               /\ loc[p].total = lastGet.Total
               /\ ~loc[p].queried

C6_Witness ==
    \E p \in Procs :
        /\ GetDone(p) /\ lastGet.valid /\ lastGet.key = KeyOf(loc[p].d)
        /\ loc[p].hit /\ loc[p].total > 0

\* C7: a page read with showPrivate = false that misses the cache and whose
\* queries succeed returns the non-private rows that match the search term,
\* newest first, from offset (page - 1) * pageSize, at most pageSize of them,
\* and as total the number of all such rows whatever the page.
C7_ReadThrough ==
    \A p \in Procs :
        (GetDone(p) /\ ~loc[p].hit /\ ~loc[p].qfail /\ ~loc[p].d.showPrivate)
            => /\ loc[p].items = DirectItems(loc[p].d)
               /\ loc[p].total = DirectTotal(loc[p].d)

C7_Witness ==
    \E p \in Procs :
        /\ GetDone(p) /\ ~loc[p].hit /\ ~loc[p].qfail /\ ~loc[p].d.showPrivate
        /\ reads = 1 /\ loc[p].d.page = 2
        /\ Len(loc[p].items) = 1 /\ loc[p].total > Len(loc[p].items)
        /\ loc[p].items[1].Images # {}

\* C8: whatever Set, Get, Delete and Clear calls have been made, the costs of
\* the resident entries sum to at most the capacity.
C8_CapacityBound == CacheCost(cache) <= Capacity

C8_Witness == evicted # {} /\ setErr = "nil" /\ CacheCost(cache) = Capacity

\* C9: a Set whose cost exceeds the capacity returns "entry too large" and
\* leaves the cache as it was: nothing evicted, nothing replaced, nothing stored.
C9_EntryTooLarge ==
    [][\A k \in CacheKeyInputs, v \in CacheValueInputs, cost \in 0..MaxCost :
          (cost > Capacity /\ CacheSetOp(k, v, cost))
              => (cache' = cache /\ setErr' = "entry too large" /\ evicted' = {})]_vars

C9_Witness == setErr = "entry too large" /\ cache # <<>>

\* C10: a page read whose database query fails returns an error, stores no
\* cache entry and tracks no key.
C10_FailedQueryNotCached ==
    \A p \in Procs :
        (GetDone(p) /\ loc[p].qfail) => (loc[p].err # "nil" /\ ~loc[p].changed)


\* C11: a page read with page <= 0 or pageSize <= 0 returns an error without
\* reading or writing the cache, tracking a key or querying the database.
C11_InvalidDescriptorRejected ==
    \A p \in Procs :
        (GetDone(p) /\ (loc[p].d.page <= 0 \/ loc[p].d.pageSize <= 0))
            => /\ loc[p].err # "nil"
               /\ ~loc[p].hit /\ ~loc[p].queried /\ ~loc[p].changed

\* C12: tracking is idempotent: after any sequence of cache misses the tracked
\* collection holds each key at most once.
C12_TrackingIdempotent ==
    \A i, j \in 1..Len(echoKeyList) :
        echoKeyList[i] = echoKeyList[j] => i = j

\* C13: when a purge completes with no concurrent operation, every key that
\* was tracked is absent from the cache and the tracked list is empty, and a
\* second purge from there changes nothing.
C13_PurgeAllPostcondition ==
    [][\A p \in Procs :
          (~loc[p].purged /\ loc'[p].purged)
              => /\ echoKeyList' = <<>>
                 /\ \A i \in 1..Len(echoKeyList) : ~CacheHas(cache', echoKeyList[i])
                 /\ DeleteAll(cache', echoKeyList') = cache']_vars

C13_Witness ==
    \E p \in Procs :
        /\ pc[p] = "done" /\ loc[p].purged /\ loc[p].changed
        /\ loc[p].cachedKeys # {}
        /\ echoKeyList = <<>> /\ CacheKeys(cache) = {}

\* C14: key construction is injective: two descriptors build the same key if
\* and only if all their fields are equal, also when the search term holds
\* the delimiter or digits.
C14_KeyInjective ==
    \A p, q \in Procs :
        (pc[p] = "done" /\ pc[q] = "done" /\ loc[p].key # <<>> /\ loc[q].key # <<>>)
            => (loc[p].key = loc[q].key <=> loc[p].d = loc[q].d)

C14_Witness ==
    \E p, q \in Procs :
        /\ pc[p] = "done" /\ pc[q] = "done"
        /\ loc[p].d.page = 1 /\ loc[p].d.pageSize = 11 /\ loc[p].d.search = <<"1", ":">>
        /\ loc[q].d.page = 11 /\ loc[q].d.pageSize = 1 /\ loc[q].d.search = <<":">>
        /\ loc[p].d.showPrivate = loc[q].d.showPrivate
        /\ loc[p].key # loc[q].key

\* C15: when two readers miss on distinct keys at the same time and each
\* records its key, both keys are in the tracked list afterwards.
C15_ConcurrentTrackingSafe ==
    \A p, q \in Procs :
        (/\ p # q /\ writes = 0 /\ reads = 2
         /\ loc[p].op = "get" /\ loc[q].op = "get"
         /\ ~loc[p].hit /\ ~loc[q].hit
         /\ loc[p].key # loc[q].key
         /\ pc[p] \in {"set", "done"} /\ pc[q] \in {"set", "done"})
            => \E i, j \in 1..Len(echoKeyList) :
                   echoKeyList[i] = loc[p].key /\ echoKeyList[j] = loc[q].key

\* C16: whenever no operation is in progress, a key is tracked if and only if
\* an entry for it is resident in the cache; an evicted key is not tracked.
C16_RegistryLifecycle ==
    Quiescent =>
        { echoKeyList[i] : i \in 1..Len(echoKeyList) } = CacheKeys(cache)

\* C17: a page read whose queries succeed and whose cache.Set is rejected
\* still returns the fetched items and total without error, and the next read
\* of the same key is a miss that queries the database again.
C17_FailedSetNeverFailsRead ==
    \A p \in Procs :
        /\ (GetDone(p) /\ loc[p].rejected /\ ~loc[p].qfail)
               => /\ loc[p].err = "nil"
                  /\ loc[p].items = PageOf(loc[p].d).Items
                  /\ loc[p].total = PageOf(loc[p].d).Total
        /\ (GetDone(p) /\ lastGet.key = loc[p].key /\ ~lastGet.valid)
               => (~loc[p].hit /\ loc[p].queried)

C17_Witness ==
    \E p \in Procs :
        /\ GetDone(p) /\ lastGet.key = loc[p].key /\ ~lastGet.valid
        /\ loc[p].rejected /\ loc[p].queried
        /\ loc[p].total > 0 /\ loc[p].items # <<>>

\* C18: DeleteEchoById or LikeEcho on an id that no row has returns not-found,
\* purges nothing and leaves the echos and images tables as they were.
C18_MissingTargetUntouched ==
    \A p \in Procs :
        (/\ WriteDone(p) /\ loc[p].op \in {"delete", "like"}
         /\ loc[p].absent /\ loc[p].err # "error")
            => /\ loc[p].err = "not_found"
               /\ ~loc[p].purged
               /\ ~loc[p].wrote

\* C19: one request at a time, a page read with showPrivate = false returns no
\* private row, from the database or from the cache, and never the entry that
\* a showPrivate = true read of the same page, page size and search stored.
C19_VisibilityIsolation ==
    \A p \in Procs :
        (GetDone(p) /\ ~loc[p].d.showPrivate)
            => /\ \A i \in 1..Len(loc[p].items) :
                      /\ ~loc[p].items[i].private
                      /\ \A e \in echos : e.id = loc[p].items[i].id => ~e.private
               /\ loc[p].key # KeyOf([loc[p].d EXCEPT !.showPrivate = TRUE])

C19_Witness ==
    \E p \in Procs :
        /\ GetDone(p) /\ ~loc[p].d.showPrivate /\ loc[p].hit
        /\ \E e \in echos : e.private
        /\ CacheHas(cache, KeyOf([loc[p].d EXCEPT !.showPrivate = TRUE]))
        /\ CacheGet(cache, KeyOf([loc[p].d EXCEPT !.showPrivate = TRUE])).Total > 0

====
